---- MODULE Spec2Model ----
(***************************************************************************)
(* src/port/thread.c: pqGetpwuid() and pqGethostbyname(), the wrappers     *)
(* that present getpwuid()/getpwuid_r() and gethostbyname()/               *)
(* gethostbyname_r() under one POSIX-style reentrant calling convention.   *)
(*                                                                         *)
(* The branch of each wrapper is fixed by the preprocessor (lines 68, 93); *)
(* the model draws the build flags once, in Init, and never changes them.  *)
(* The C library primitives are the wrappers' environment.  They are       *)
(* modelled by their documented contract (the three cases of lines 57-61   *)
(* for the account lookup), and where the platform is free to differ       *)
(* (static storage and h_errno process-wide or per thread, errno after a   *)
(* successful getpwuid(), h_errno after a successful gethostbyname()) the  *)
(* model takes every outcome.  errno is per-thread, as C11 and POSIX       *)
(* threads require.                                                        *)
(*                                                                         *)
(* A call is one action wherever it touches only the calling thread's own  *)
(* state and the platform in one place; the legacy host branch, which      *)
(* reads the shared h_errno (line 107) after the lookup that sets it       *)
(* (line 104), is two actions, so another thread can run in between.       *)
(***************************************************************************)
EXTENDS Integers, FiniteSets

\* ---------------------------------------------------------------- bounds
MaxBufLen == 1
MaxCalls == 2

Threads == {1, 2}
BufLens == 0..MaxBufLen

\* ------------------------------------------------- platform error codes
ENOENT == 2
EIO == 5
ERANGE == 34
HOST_NOT_FOUND == 1
NETDB_INTERNAL == -1
NETDB_SUCCESS == 0

\* ------------------------------------------------ the platform's data
\* Account database: uids 1 and 2 have a record, uid 3 has none, and the
\* lookup of uid 4 fails with EIO ("error during lookup", line 60).
Uids == 1..4
PwHasRecord(uid) == uid \in {1, 2}
PwLookupError(uid) == IF uid = 4 THEN EIO ELSE 0
\* Bytes of caller storage the record of uid needs (getpwuid_r only).
PwSize(uid) == 1

\* Host database: names 1 and 2 resolve, name 3 does not.
Names == 1..3
HostResolves(name) == name \in {1, 2}
HostSize(name) == 1

\* Values the caller may have in *herrno before the call.
PreHerrno == {9}
\* errno values the earlier operations of a thread may have left.
StaleErrno == {0, ENOENT}
\* h_errno values the earlier resolver calls of a thread may have left.
StaleHerrno == {NETDB_SUCCESS, HOST_NOT_FOUND}

\* --------------------------------------------------------- pointers
\* A struct passwd * / struct hostent *: NULL, the caller's resultbuf, or
\* the platform's static storage (slot 0 is process-wide, slot t > 0 is
\* thread t's own).  UNSET is the caller's not yet written slot.
NULL == [kind |-> "null", key |-> 0]
UNSET == [kind |-> "unset", key |-> 0]
ResultbufPtr(t) == [kind |-> "resultbuf", key |-> t]
StaticPtr(k) == [kind |-> "static", key |-> k]
\* Contents of a caller buffer the caller has not filled: no record.
FRESH == 0

VARIABLES
    build,      \* the preprocessor flags of lines 68 and 93
    platform,   \* what the C library does where it is free to choose
    pc,         \* pc[t]: the statement thread t is at
    call,       \* call[t]: the arguments and caller-owned slots of t's call
    ret,        \* ret[t]: the value t's call returned
    errno,      \* errno[t]: thread t's errno
    h_errno,    \* h_errno[k]: the resolver's error indicator, slot k
    pwStatic,   \* pwStatic[k]: getpwuid()'s static struct passwd, slot k
    hostStatic, \* hostStatic[k]: gethostbyname()'s static struct hostent
    hAtLookup,  \* hAtLookup[t]: h_errno as t's own gethostbyname() left it
    ncalls      \* calls started so far

vars == <<build, platform, pc, call, ret, errno, h_errno, pwStatic,
          hostStatic, hAtLookup, ncalls>>

Slots == {0} \cup Threads

\* The arguments of an idle thread.  Besides the arguments and the
\* caller-owned locations, a call records herrno0, what *herrno held at
\* entry, and errno0, what errno held at entry of a legacy pqGetpwuid()
\* whose lookup returned NULL (the value line 75 reads had line 72 not
\* cleared it).
NoCall ==
    [op |-> "none", uid |-> 0, name |-> 0, buflen |-> 0,
     resultbuf |-> FRESH, buffer |-> FRESH, result |-> UNSET,
     herrno |-> 0, herrno0 |-> 0, errno0 |-> 0]

\* A condition that never selects the reentrant branch (a misspelt macro).
UseGetpwuidR_never == FALSE

\* #if defined(FRONTEND) && defined(ENABLE_THREAD_SAFETY) && defined(HAVE_GETPWUID_R)
UseGetpwuidR ==
    build.FRONTEND /\ build.ENABLE_THREAD_SAFETY /\ build.HAVE_GETPWUID_R

\* #if defined(FRONTEND) && defined(ENABLE_THREAD_SAFETY) && defined(HAVE_GETHOSTBYNAME_R)
UseGethostbynameR ==
    build.FRONTEND /\ build.ENABLE_THREAD_SAFETY /\ build.HAVE_GETHOSTBYNAME_R

\* The slot of static storage / of h_errno that thread t's legacy call uses.
StaticKey(t) == IF platform.staticPerThread THEN t ELSE 0
HerrnoKey(t) == IF platform.herrnoPerThread THEN t ELSE 0

\* What a pointer refers to, read now.
DerefPw(p) ==
    CASE p.kind = "resultbuf" -> call[p.key].resultbuf
      [] p.kind = "static" -> pwStatic[p.key]
      [] OTHER -> FRESH

DerefHost(p) ==
    CASE p.kind = "resultbuf" -> call[p.key].resultbuf
      [] p.kind = "static" -> hostStatic[p.key]
      [] OTHER -> FRESH

Init ==
    /\ build \in [FRONTEND : BOOLEAN, ENABLE_THREAD_SAFETY : BOOLEAN,
                  HAVE_GETPWUID_R : BOOLEAN, HAVE_GETHOSTBYNAME_R : BOOLEAN]
    /\ platform \in [staticPerThread : BOOLEAN, herrnoPerThread : BOOLEAN]
    /\ pc = [t \in Threads |-> "idle"]
    /\ call = [t \in Threads |-> NoCall]
    /\ ret = [t \in Threads |-> 0]
    /\ errno = [t \in Threads |-> 0]
    /\ h_errno = [k \in Slots |-> NETDB_SUCCESS]
    /\ pwStatic = [k \in Slots |-> FRESH]
    /\ hostStatic = [k \in Slots |-> FRESH]
    /\ hAtLookup = [t \in Threads |-> 0]
    /\ ncalls = 0

\* ------------------------------------------------------------ pqGetpwuid

\* The platform's getpwuid_r(uid, resultbuf, buffer, buflen, result):
\* the status it returns, what it stores in *result, and whether it
\* filled the caller's storage.
getpwuid_r(t, uid, buflen) ==
    IF PwHasRecord(uid)
    THEN IF buflen >= PwSize(uid)
         THEN [status |-> 0, result |-> ResultbufPtr(t), filled |-> TRUE]
         ELSE [status |-> ERANGE, result |-> NULL, filled |-> FALSE]
    ELSE [status |-> PwLookupError(uid), result |-> NULL, filled |-> FALSE]

\* An erroneous delegation that passes the capacity of a buffer of its
\* own instead of the caller's buflen.
pqGetpwuid_delegate_ownlen(t, uid, buflen) == getpwuid_r(t, uid, MaxBufLen + 1)

\* line 69: the arguments are passed through unchanged.
pqGetpwuid_delegate(t, uid, buflen) == getpwuid_r(t, uid, buflen)

\* Lines 64-69, the reentrant branch: thread t calls
\* pqGetpwuid(uid, resultbuf, buffer, buflen, result) with fresh buffers;
\* return getpwuid_r(uid, resultbuf, buffer, buflen, result);
pqGetpwuid_reentrant(t, uid, buflen) ==
    /\ pc[t] = "idle"
    /\ UseGetpwuidR
    /\ ncalls < MaxCalls
    /\ ncalls' = ncalls + 1
    /\ LET r == pqGetpwuid_delegate(t, uid, buflen) IN
        /\ call' = [call EXCEPT ![t] =
                      [NoCall EXCEPT !.op = "pw", !.uid = uid,
                                     !.buflen = buflen,
                                     !.result = r.result,
                                     !.resultbuf = IF r.filled THEN uid ELSE @,
                                     !.buffer = IF r.filled THEN uid ELSE @]]
        /\ ret' = [ret EXCEPT ![t] = r.status]
    /\ pc' = [pc EXCEPT ![t] = "done"]
    /\ UNCHANGED <<build, platform, errno, h_errno, pwStatic, hostStatic,
                   hAtLookup>>

\* Line 72 left out: errno keeps what it held.
ClearErrno_skipped(e) == e

\* line 72: errno = 0;
ClearErrno(e) == 0

\* The platform's getpwuid(uid), called with errno = e: the pointer it
\* returns and the values it may leave in errno.  A found record is put in
\* the static struct passwd and errno is unspecified; "not found" leaves
\* errno alone; an error sets errno.
getpwuid(t, uid, e) ==
    IF PwHasRecord(uid)
    THEN [result |-> StaticPtr(StaticKey(t)), errnos |-> {e, ENOENT}]
    ELSE [result |-> NULL,
          errnos |-> {IF PwLookupError(uid) # 0 THEN PwLookupError(uid) ELSE e}]

\* Line 75 without the "paranoia": errno whatever the lookup returned.
PwLegacyReturn_errno(result, e) == e

\* Line 75 reporting a NULL result as an error also when errno is not set.
PwLegacyReturn_enoent(result, e) ==
    IF result = NULL THEN (IF e = 0 THEN ENOENT ELSE e) ELSE 0

\* line 75: return (*result == NULL) ? errno : 0;
PwLegacyReturn(result, e) == IF result = NULL THEN e ELSE 0

\* A legacy branch that copies the static record into the caller's
\* resultbuf and hands that back.
PwLegacyOut_copying(t, uid, p) ==
    [result |-> IF p = NULL THEN NULL ELSE ResultbufPtr(t),
     resultbuf |-> IF p = NULL THEN FRESH ELSE uid]

\* line 73: the caller-owned locations the legacy branch writes: *result
\* takes the pointer getpwuid() returned; resultbuf is not touched.
PwLegacyOut(t, uid, p) == [result |-> p, resultbuf |-> FRESH]

\* Lines 64-75, the legacy branch: errno = 0; *result = getpwuid(uid);
\* return (*result == NULL) ? errno : 0;
\* e0 is what the thread's earlier, unrelated operations left in errno.
\* errno is the thread's own and *result the caller's, so no other thread
\* can act on what the three statements read.
pqGetpwuid_legacy(t, uid, buflen, e0) ==
    /\ pc[t] = "idle"
    /\ ~UseGetpwuidR
    /\ ncalls < MaxCalls
    /\ ncalls' = ncalls + 1
    /\ LET g == getpwuid(t, uid, ClearErrno(e0))
           out == PwLegacyOut(t, uid, g.result)
       IN
        /\ \E e \in g.errnos :
              /\ errno' = [errno EXCEPT ![t] = e]
              /\ ret' = [ret EXCEPT ![t] = PwLegacyReturn(out.result, e)]
        /\ pwStatic' = IF g.result # NULL
                       THEN [pwStatic EXCEPT ![StaticKey(t)] = uid]
                       ELSE pwStatic
        /\ call' = [call EXCEPT ![t] =
                      [NoCall EXCEPT !.op = "pw", !.uid = uid,
                                     !.buflen = buflen,
                                     !.errno0 = IF g.result = NULL THEN e0 ELSE 0,
                                     !.result = out.result,
                                     !.resultbuf = out.resultbuf]]
    /\ pc' = [pc EXCEPT ![t] = "done"]
    /\ UNCHANGED <<build, platform, h_errno, hostStatic, hAtLookup>>

\* ------------------------------------------------------- pqGethostbyname

\* The platform's draft-POSIX gethostbyname_r(name, resultbuf, buffer,
\* buflen, herrno), which returns the struct hostent *: the pointer, what
\* it leaves in *herrno (old: what was there), and whether it filled the
\* caller's storage.
gethostbyname_r(t, name, buflen, old) ==
    IF HostResolves(name)
    THEN IF buflen >= HostSize(name)
         THEN [result |-> ResultbufPtr(t), herrno |-> old, filled |-> TRUE]
         ELSE [result |-> NULL, herrno |-> NETDB_INTERNAL, filled |-> FALSE]
    ELSE [result |-> NULL, herrno |-> HOST_NOT_FOUND, filled |-> FALSE]

\* A return that hands back the resolver's error code on failure.
HostReturn_code(result, h) == IF result = NULL THEN h ELSE 0

\* lines 100 and 109-112: 0 for a non-NULL *result, -1 for NULL.
HostReturn(result, h) == IF result = NULL THEN -1 ELSE 0

\* Lines 86-100, the reentrant branch: thread t calls
\* pqGethostbyname(name, resultbuf, buffer, buflen, result, herrno) with
\* fresh buffers and h0 in *herrno;
\* *result = gethostbyname_r(name, resultbuf, buffer, buflen, herrno);
\* return (*result == NULL) ? -1 : 0;
pqGethostbyname_reentrant(t, name, buflen, h0) ==
    /\ pc[t] = "idle"
    /\ UseGethostbynameR
    /\ ncalls < MaxCalls
    /\ ncalls' = ncalls + 1
    /\ LET r == gethostbyname_r(t, name, buflen, h0) IN
        /\ call' = [call EXCEPT ![t] =
                      [NoCall EXCEPT !.op = "host", !.name = name,
                                     !.buflen = buflen, !.herrno0 = h0,
                                     !.herrno = r.herrno,
                                     !.result = r.result,
                                     !.resultbuf = IF r.filled THEN name ELSE @,
                                     !.buffer = IF r.filled THEN name ELSE @]]
        /\ ret' = [ret EXCEPT ![t] = HostReturn(r.result, r.herrno)]
    /\ pc' = [pc EXCEPT ![t] = "done"]
    /\ UNCHANGED <<build, platform, errno, h_errno, pwStatic, hostStatic,
                   hAtLookup>>

\* The platform's gethostbyname(name), called with h_errno = h: the pointer
\* it returns and the values it may leave in h_errno.  A resolved record is
\* put in the static struct hostent and h_errno is left as it was or
\* cleared (unspecified); a failure sets h_errno.
gethostbyname(t, name, h) ==
    IF HostResolves(name)
    THEN [result |-> StaticPtr(StaticKey(t)), herrnos |-> {h, NETDB_SUCCESS}]
    ELSE [result |-> NULL, herrnos |-> {HOST_NOT_FOUND}]

\* Lines 86-104, the legacy branch: thread t calls pqGethostbyname(name,
\* resultbuf, buffer, buflen, result, herrno) with h0 in *herrno;
\* *result = gethostbyname(name);
\* hs is what the thread's earlier resolver calls left in h_errno.
pqGethostbyname_L104(t, name, buflen, h0, hs) ==
    /\ pc[t] = "idle"
    /\ ~UseGethostbynameR
    /\ ncalls < MaxCalls
    /\ ncalls' = ncalls + 1
    /\ LET g == gethostbyname(t, name, hs) IN
        /\ \E h \in g.herrnos :
              /\ h_errno' = [h_errno EXCEPT ![HerrnoKey(t)] = h]
              /\ hAtLookup' = [hAtLookup EXCEPT ![t] = h]
        /\ hostStatic' = IF g.result # NULL
                         THEN [hostStatic EXCEPT ![StaticKey(t)] = name]
                         ELSE hostStatic
        /\ call' = [call EXCEPT ![t] =
                      [NoCall EXCEPT !.op = "host", !.name = name,
                                     !.buflen = buflen, !.herrno0 = h0,
                                     !.herrno = h0,
                                     !.result = g.result]]
    /\ pc' = [pc EXCEPT ![t] = "host106"]
    /\ UNCHANGED <<build, platform, ret, errno, pwStatic>>

\* Lines 106-107 without the test: h_errno is copied out on failure too.
StoreHerrno_always(result, old, h) == h

\* Lines 106-107 storing "no error" for a successful lookup.
StoreHerrno_success(result, old, h) == IF result # NULL THEN NETDB_SUCCESS ELSE old

\* lines 106-107: if (*result != NULL) *herrno = h_errno;
StoreHerrno(result, old, h) == IF result # NULL THEN h ELSE old

\* Lines 106-112: if (*result != NULL) *herrno = h_errno;
\* if (*result != NULL) return 0; else return -1;
pqGethostbyname_L106(t) ==
    /\ pc[t] = "host106"
    /\ LET h == StoreHerrno(call[t].result, call[t].herrno,
                            h_errno[HerrnoKey(t)]) IN
        /\ call' = [call EXCEPT ![t].herrno = h]
        /\ ret' = [ret EXCEPT ![t] = HostReturn(call[t].result, h)]
    /\ pc' = [pc EXCEPT ![t] = "done"]
    /\ UNCHANGED <<build, platform, errno, h_errno, pwStatic, hostStatic,
                   hAtLookup, ncalls>>

\* ------------------------------------------------------------ the caller

\* The caller has read the outputs, drops its buffers and goes on with
\* unrelated work; what that work leaves in errno is drawn when the
\* thread's next call starts.
Consume(t) ==
    /\ pc[t] = "done"
    /\ pc' = [pc EXCEPT ![t] = "idle"]
    /\ call' = [call EXCEPT ![t] = NoCall]
    /\ ret' = [ret EXCEPT ![t] = 0]
    /\ errno' = [errno EXCEPT ![t] = 0]
    /\ hAtLookup' = [hAtLookup EXCEPT ![t] = 0]
    /\ UNCHANGED <<build, platform, h_errno, pwStatic, hostStatic, ncalls>>

Next ==
    \E t \in Threads :
        \/ \E uid \in Uids, buflen \in BufLens : pqGetpwuid_reentrant(t, uid, buflen)
        \/ \E uid \in Uids, buflen \in BufLens, e0 \in StaleErrno :
              pqGetpwuid_legacy(t, uid, buflen, e0)
        \/ \E name \in Names, buflen \in BufLens, h0 \in PreHerrno :
              pqGethostbyname_reentrant(t, name, buflen, h0)
        \/ \E name \in Names, buflen \in BufLens, h0 \in PreHerrno,
              hs \in StaleHerrno \cup {h_errno[HerrnoKey(t)]} :
              pqGethostbyname_L104(t, name, buflen, h0, hs)
        \/ pqGethostbyname_L106(t)
        \/ Consume(t)

Spec == Init /\ [][Next]_vars

\* ----------------------------------------------------------- properties

Returned(t, op) == pc[t] = "done" /\ call[t].op = op
PwAbsent(uid) == ~PwHasRecord(uid) /\ PwLookupError(uid) = 0

\* C1: whenever pqGetpwuid has returned, in either branch, a non-NULL
\* *result comes with return value 0 and a non-zero return value comes with
\* a NULL *result, also when errno is non-zero after the lookup.
C1_StatusMatchesResult ==
    \A t \in Threads :
        Returned(t, "pw") =>
            /\ call[t].result # UNSET
            /\ call[t].result # NULL => ret[t] = 0
            /\ ret[t] # 0 => call[t].result = NULL

C1_Witness ==
    \E t \in Threads :
        /\ Returned(t, "pw") /\ ~UseGetpwuidR
        /\ call[t].result # NULL /\ errno[t] # 0 /\ ret[t] = 0

\* C2: for a uid that has no account record pqGetpwuid returns 0 with
\* *result NULL; with *result NULL, the return value is 0 exactly for such
\* a uid, so the return code alone tells "not found" from an error.
C2_NotFoundIsSuccess ==
    \A t \in Threads :
        Returned(t, "pw") =>
            /\ PwAbsent(call[t].uid) => ret[t] = 0 /\ call[t].result = NULL
            /\ call[t].result = NULL => (ret[t] = 0 <=> PwAbsent(call[t].uid))

C2_Witness ==
    \E t \in Threads :
        /\ Returned(t, "pw") /\ ~UseGetpwuidR
        /\ PwAbsent(call[t].uid) /\ ret[t] = 0 /\ call[t].result = NULL

Undersized(t) ==
    /\ Returned(t, "pw")
    /\ PwHasRecord(call[t].uid)
    /\ call[t].buflen < PwSize(call[t].uid)

\* C3 as stated: with a buffer too small for the record of an existing
\* uid, pqGetpwuid returns non-zero with *result NULL in every branch.
C3_UndersizedFailsEverywhere ==
    \A t \in Threads :
        Undersized(t) => ret[t] # 0 /\ call[t].result = NULL

\* C3 amended: with a buffer too small for the record of an existing uid,
\* the reentrant branch returns non-zero with *result NULL and leaves
\* resultbuf unfilled; the legacy branch does not use the buffer and
\* returns 0 with *result pointing at the platform's static record.
C3_UndersizedFailsWhenReentrant ==
    \A t \in Threads :
        Undersized(t) =>
            IF build.FRONTEND /\ build.ENABLE_THREAD_SAFETY
               /\ build.HAVE_GETPWUID_R
            THEN ret[t] # 0 /\ call[t].result = NULL
                 /\ call[t].resultbuf = FRESH
            ELSE ret[t] = 0 /\ call[t].result.kind = "static"

C3_Witness ==
    \E t \in Threads :
        /\ Undersized(t) /\ UseGetpwuidR
        /\ call[t].buflen = 0 /\ ret[t] = ERANGE /\ call[t].result = NULL

\* C4: whenever pqGethostbyname has returned, in either branch, the return
\* value is 0 exactly when *result is non-NULL, -1 exactly when it is
\* NULL, and nothing else.
C4_HostStatusIsNullity ==
    \A t \in Threads :
        Returned(t, "host") =>
            /\ ret[t] \in {0, -1}
            /\ ret[t] = 0 <=> call[t].result \notin {NULL, UNSET}
            /\ ret[t] = -1 <=> call[t].result = NULL

C4_Witness ==
    \E t, u \in Threads :
        /\ Returned(t, "host") /\ call[t].result = NULL /\ ret[t] = -1
        /\ Returned(u, "host") /\ call[u].result # NULL /\ ret[u] = 0

\* The builds in which lines 69 and 99 are the code compiled.
PwReentrantBuild ==
    build.FRONTEND /\ build.ENABLE_THREAD_SAFETY /\ build.HAVE_GETPWUID_R
HostReentrantBuild ==
    build.FRONTEND /\ build.ENABLE_THREAD_SAFETY /\ build.HAVE_GETHOSTBYNAME_R

\* Thread t's returned pqGetpwuid call shows the result for its own uid.
OwnPw(t) ==
    Returned(t, "pw") =>
        IF PwHasRecord(call[t].uid)
           /\ (PwReentrantBuild => call[t].buflen >= PwSize(call[t].uid))
        THEN /\ ret[t] = 0
             /\ call[t].result \notin {NULL, UNSET}
             /\ DerefPw(call[t].result) = call[t].uid
        ELSE /\ call[t].result = NULL
             /\ ret[t] = IF PwHasRecord(call[t].uid) THEN ERANGE
                         ELSE PwLookupError(call[t].uid)

\* Thread t's returned pqGethostbyname call shows the result for its own
\* name; *herrno is what the call's own lookup produced.
OwnHost(t) ==
    Returned(t, "host") =>
        IF HostResolves(call[t].name)
           /\ (HostReentrantBuild => call[t].buflen >= HostSize(call[t].name))
        THEN /\ ret[t] = 0
             /\ call[t].result \notin {NULL, UNSET}
             /\ DerefHost(call[t].result) = call[t].name
             /\ call[t].herrno = IF HostReentrantBuild THEN call[t].herrno0
                                 ELSE hAtLookup[t]
        ELSE /\ ret[t] = -1
             /\ call[t].result = NULL
             /\ call[t].herrno =
                  IF ~HostReentrantBuild THEN call[t].herrno0
                  ELSE IF HostResolves(call[t].name) THEN NETDB_INTERNAL
                  ELSE HOST_NOT_FOUND

\* C5 as stated: in every build with ENABLE_THREAD_SAFETY, every returned
\* call of either wrapper shows the result for its own input, whatever the
\* other thread does.
C5_ThreadSafeBuildIsolates ==
    build.ENABLE_THREAD_SAFETY => \A t \in Threads : OwnPw(t) /\ OwnHost(t)

\* C5 amended: in a build with ENABLE_THREAD_SAFETY, every returned call
\* shows the result for its own input provided the wrapper's reentrant
\* branch is the one compiled (FRONTEND and HAVE_GETPWUID_R, respectively
\* HAVE_GETHOSTBYNAME_R, defined too) or the platform keeps the legacy
\* primitive's static record and h_errno per thread.
C5_ReentrantBuildIsolates ==
    build.ENABLE_THREAD_SAFETY =>
        \A t \in Threads :
            /\ PwReentrantBuild \/ platform.staticPerThread => OwnPw(t)
            /\ \/ HostReentrantBuild
               \/ platform.staticPerThread /\ platform.herrnoPerThread
               => OwnHost(t)

C5_Witness ==
    /\ PwReentrantBuild /\ HostReentrantBuild
    /\ \E t, u \in Threads :
        /\ t # u
        /\ Returned(t, "pw") /\ Returned(u, "pw")
        /\ call[t].uid # call[u].uid
        /\ DerefPw(call[t].result) = call[t].uid
        /\ DerefPw(call[u].result) = call[u].uid

InLegacyHost(t) ==
    /\ call[t].op = "host"
    /\ ~(build.FRONTEND /\ build.ENABLE_THREAD_SAFETY
         /\ build.HAVE_GETHOSTBYNAME_R)

\* C6: in the legacy host branch, when gethostbyname() returned NULL the
\* caller's *herrno keeps its pre-call value and the call returns -1;
\* *herrno differs from its pre-call value only when *result is non-NULL.
C6_HerrnoUntouchedOnFailure ==
    \A t \in Threads :
        InLegacyHost(t) =>
            /\ call[t].result = NULL => call[t].herrno = call[t].herrno0
            /\ pc[t] = "done" /\ call[t].result = NULL => ret[t] = -1
            /\ call[t].herrno # call[t].herrno0 => call[t].result # NULL

C6_Witness ==
    \E t \in Threads :
        /\ InLegacyHost(t) /\ pc[t] = "done" /\ call[t].result = NULL
        /\ h_errno[HerrnoKey(t)] = HOST_NOT_FOUND
        /\ call[t].herrno = call[t].herrno0 /\ ret[t] = -1

\* C7 as stated: in the legacy host branch the value stored in *herrno is
\* h_errno as it stood when this call's own gethostbyname() returned;
\* nothing, of this call or of a concurrent one, changes it in between.
C7_HerrnoIsOwnLookups ==
    \A t \in Threads :
        InLegacyHost(t) /\ pc[t] = "done" /\ call[t].result # NULL
            => call[t].herrno = hAtLookup[t]

\* C7 amended: in the legacy host branch the value stored in *herrno is
\* h_errno as read right after this call's own gethostbyname() returned,
\* with no operation of this call in between; it is the value the call's
\* own lookup left provided the platform keeps h_errno per thread.
C7_HerrnoIsOwnLookupsPerThread ==
    platform.herrnoPerThread =>
        \A t \in Threads :
            InLegacyHost(t) /\ pc[t] = "done" /\ call[t].result # NULL
                => call[t].herrno = hAtLookup[t]

C7_Witness ==
    /\ platform.herrnoPerThread
    /\ \E t, u \in Threads :
        /\ InLegacyHost(t) /\ pc[t] = "done" /\ call[t].result # NULL
        /\ call[t].herrno = NETDB_SUCCESS
        /\ InLegacyHost(u) /\ pc[u] = "done" /\ call[u].result = NULL
        /\ h_errno[HerrnoKey(u)] = HOST_NOT_FOUND

\* Two returned calls of the same wrapper with identical inputs.
SameInputs(t, u) ==
    /\ t # u
    /\ pc[t] = "done" /\ pc[u] = "done"
    /\ call[t].op = call[u].op
    /\ call[t].uid = call[u].uid
    /\ call[t].name = call[u].name
    /\ call[t].buflen = call[u].buflen
    /\ call[t].herrno0 = call[u].herrno0

Content(t) ==
    IF call[t].op = "pw" THEN DerefPw(call[t].result)
    ELSE DerefHost(call[t].result)

SameStatusAndRecord(t, u) ==
    /\ ret[t] = ret[u]
    /\ (call[t].result = NULL) <=> (call[u].result = NULL)
    /\ Content(t) = Content(u)

\* C8 as stated: two calls with identical inputs and fresh output slots
\* yield the same status, the same *result nullity and record contents,
\* and the same *herrno.
C8_Idempotent ==
    \A t, u \in Threads :
        SameInputs(t, u) =>
            SameStatusAndRecord(t, u) /\ call[t].herrno = call[u].herrno

\* C8 amended: two calls with identical inputs and fresh output slots,
\* compared while both results are held, yield the same status, the same
\* *result nullity and record contents, and the same *herrno except after
\* a successful lookup in the legacy host branch, where *herrno is
\* whatever h_errno held.
C8_IdempotentButHerrno ==
    \A t, u \in Threads :
        SameInputs(t, u) =>
            /\ SameStatusAndRecord(t, u)
            /\ ~(InLegacyHost(t) /\ call[t].result # NULL)
                 => call[t].herrno = call[u].herrno

C8_Witness ==
    \E t, u \in Threads :
        /\ SameInputs(t, u) /\ call[t].op = "pw" /\ ~UseGetpwuidR
        /\ PwAbsent(call[t].uid)
        /\ call[t].errno0 # call[u].errno0
        /\ ret[t] = 0 /\ ret[u] = 0

InLegacyPw(t) ==
    /\ call[t].op = "pw"
    /\ ~(build.FRONTEND /\ build.ENABLE_THREAD_SAFETY
         /\ build.HAVE_GETPWUID_R)

\* C9: in the legacy identity branch, when getpwuid() returned NULL the
\* return code is errno as this call's own lookup set it, 0 if the lookup
\* did not set it; a non-zero errno from before the call is never returned.
C9_ReturnIsOwnErrno ==
    \A t \in Threads :
        InLegacyPw(t) /\ pc[t] = "done" /\ call[t].result = NULL =>
            /\ ret[t] = PwLookupError(call[t].uid)
            /\ ret[t] = errno[t]

C9_Witness ==
    \E t, u \in Threads :
        /\ InLegacyPw(t) /\ pc[t] = "done" /\ call[t].result = NULL
        /\ call[t].errno0 # 0 /\ PwAbsent(call[t].uid) /\ ret[t] = 0
        /\ InLegacyPw(u) /\ pc[u] = "done" /\ call[u].result = NULL
        /\ call[u].errno0 # 0 /\ ret[u] = EIO

\* C10: a call of a legacy branch never writes the caller's resultbuf or
\* buffer, whatever buflen is; it writes *result, and *herrno only on a
\* successful host lookup; a non-NULL *result is the platform's static
\* storage, never resultbuf.
C10_LegacyLeavesBuffers ==
    \A t \in Threads :
        InLegacyPw(t) \/ InLegacyHost(t) =>
            /\ call[t].resultbuf = FRESH
            /\ call[t].buffer = FRESH
            /\ call[t].result.kind \in {"null", "static"}
            /\ call[t].herrno # call[t].herrno0 =>
                  InLegacyHost(t) /\ call[t].result.kind = "static"

C10_Witness ==
    \E t, u \in Threads :
        /\ InLegacyPw(t) /\ pc[t] = "done" /\ call[t].buflen = 0
        /\ call[t].result.kind = "static" /\ call[t].resultbuf = FRESH
        /\ InLegacyHost(u) /\ pc[u] = "done" /\ call[u].buflen = 0
        /\ call[u].result.kind = "static" /\ call[u].resultbuf = FRESH
        /\ call[u].herrno # call[u].herrno0

====
